---- MODULE Spec2Model ----
(***************************************************************************)
(* tweetmap: assigns geotagged records to regions and tallies them.        *)
(*                                                                         *)
(* Python values are modelled as tagged records so that the structural     *)
(* probes of the code (subscripting, "is this a pair of numbers") can be   *)
(* evaluated:  None/null, numbers, strings, lists and dicts.               *)
(* A call that may raise returns [exc, val]: exc = "" on normal return,    *)
(* otherwise the name of the Python exception class.                       *)
(***************************************************************************)
EXTENDS Integers, Sequences, FiniteSets, TLC

(* ---------------------------------------------------------------------- *)
(* Python / JSON values                                                    *)
(* ---------------------------------------------------------------------- *)
None == [t |-> "null"]
JNum(n) == [t |-> "num", v |-> n]
JStr(s) == [t |-> "str", v |-> s]
JList(s) == [t |-> "list", v |-> s]
(* a dict keeps its items in insertion order; json.loads inserts them in   *)
(* the order of the document.  items: a sequence of Item(key, value) with  *)
(* distinct string keys.                                                   *)
Item(k, v) == [k |-> k, v |-> v]
JDict(items) == [t |-> "dict", v |-> items]
DictKeys(d) == [i \in 1..Len(d.v) |-> JStr(d.v[i].k)]
DictHas(d, key) == \E i \in 1..Len(d.v) : d.v[i].k = key
DictGet(d, key) == d.v[CHOOSE i \in 1..Len(d.v) : d.v[i].k = key].v

Ok(v) == [exc |-> "", val |-> v]
Raise(e) == [exc |-> e, val |-> None]

(* o[p] : the subscription the reduce of _extract_location applies.        *)
(* A dict hashes its key first, so a list or dict key is a TypeError; the  *)
(* keys of a decoded JSON object are strings, so any other key is missing. *)
Subscript(o, p) ==
  CASE o.t = "dict" ->
         IF p.t \in {"list", "dict"} THEN Raise("TypeError")
         ELSE IF p.t = "str" /\ DictHas(o, p.v) THEN Ok(DictGet(o, p.v))
         ELSE Raise("KeyError")
    [] o.t = "list" ->
         IF p.t # "num" THEN Raise("TypeError")
         ELSE IF p.v >= 0 /\ p.v < Len(o.v) THEN Ok(o.v[p.v + 1])
         ELSE IF p.v < 0 /\ -p.v <= Len(o.v) THEN Ok(o.v[Len(o.v) + p.v + 1])
         ELSE Raise("IndexError")
    [] o.t = "str" ->
         IF p.t # "num" THEN Raise("TypeError")
         ELSE IF p.v >= 0 /\ p.v < Len(o.v) THEN Ok(JStr(SubSeq(o.v, p.v + 1, p.v + 1)))
         ELSE IF p.v < 0 /\ -p.v <= Len(o.v)
              THEN Ok(JStr(SubSeq(o.v, Len(o.v) + p.v + 1, Len(o.v) + p.v + 1)))
         ELSE Raise("IndexError")
    [] OTHER -> Raise("TypeError")

(* functools.reduce(lambda o, p: o[p], keypath, obj) *)
RECURSIVE Reduce(_, _)
Reduce(keypath, obj) ==
  IF keypath = <<>> THEN Ok(obj)
  ELSE LET r == Subscript(obj, Head(keypath))
       IN IF r.exc # "" THEN r ELSE Reduce(Tail(keypath), r.val)

(* the sequence s back to front *)
Backwards(s) == [i \in 1..Len(s) |-> s[Len(s) + 1 - i]]

(* reversed(location), already drained into a list as Point() does.        *)
(* A dict is reversible from Python 3.8 on (its keys, last inserted        *)
(* first); before that reversed(dict) is a TypeError.                      *)
Reversed(location, python38) ==
  CASE location.t = "list" ->
         Ok(JList(Backwards(location.v)))
    [] location.t = "str" ->
         Ok(JList([i \in 1..Len(location.v) |->
                     JStr(SubSeq(location.v, Len(location.v) + 1 - i, Len(location.v) + 1 - i))]))
    [] location.t = "dict" ->
         IF python38 THEN Ok(JList(Backwards(DictKeys(location)))) ELSE Raise("TypeError")
    [] OTHER -> Raise("TypeError")

(* shapely.geometry.Point(coords).  The constructor belongs to the        *)
(* geometry library; the two major series differ in the exception class   *)
(* raised for a malformed argument, so the series is a parameter.         *)
(*   1.x: sequence fallback  ob[0]; len(ob); c_double(ob[0]); c_double(ob[1]) *)
(*   2.x: numpy conversion; non-numeric items go through float()          *)
MkPoint(x, y) == [t |-> "Point", x |-> x, y |-> y]

PointV1(coords) ==
  CASE coords.t \in {"null", "num"} -> Raise("TypeError")
    [] coords.t = "dict" -> Raise("KeyError")
    [] coords.t = "str" -> IF coords.v = "" THEN Raise("IndexError") ELSE Raise("TypeError")
    [] coords.t = "list" ->
         IF Len(coords.v) = 0 THEN Raise("IndexError")
         ELSE IF coords.v[1].t # "num" THEN Raise("TypeError")
         ELSE IF Len(coords.v) = 1 THEN Raise("IndexError")
         ELSE IF coords.v[2].t # "num" THEN Raise("TypeError")
         ELSE IF Len(coords.v) = 3 /\ coords.v[3].t # "num" THEN Raise("TypeError")
         ELSE Ok(MkPoint(coords.v[1].v, coords.v[2].v))
    [] OTHER -> Raise("TypeError")

PointV2(coords) ==
  CASE coords.t \in {"null", "num", "dict", "str"} -> Raise("TypeError")
    [] coords.t = "list" ->
         IF \A i \in 1..Len(coords.v) : coords.v[i].t = "num"
         THEN IF Len(coords.v) \in {2, 3}
              THEN Ok(MkPoint(coords.v[1].v, coords.v[2].v))
              ELSE Raise("ValueError")
         ELSE IF Len(coords.v) = 1 /\ coords.v[1].t = "list"
                 /\ Len(coords.v[1].v) \in {2, 3}
                 /\ \A i \in 1..Len(coords.v[1].v) : coords.v[1].v[i].t = "num"
              THEN Ok(MkPoint(coords.v[1].v[1].v, coords.v[1].v[2].v))
         ELSE IF \E i \in 1..Len(coords.v) : coords.v[i].t \in {"list", "dict"}
              THEN Raise("ValueError")
         ELSE IF \E i \in 1..Len(coords.v) : coords.v[i].t = "null"
              THEN Raise("TypeError")
         ELSE Raise("ValueError")
    [] OTHER -> Raise("TypeError")

Point(coords, shapely) == IF shapely = 1 THEN PointV1(coords) ELSE PointV2(coords)

(* ---------------------------------------------------------------------- *)
(* extract_location(keypath, location_format) -> _extract_location(obj)    *)
(* ---------------------------------------------------------------------- *)
Caught == {"KeyError", "IndexError", "TypeError"}

(* the body of the try block: the located value converted to a Point *)
Convert(location_format, location, shapely, python38) ==
  CASE location_format = "lat-lon-array" ->
         LET r == Reversed(location, python38)
         IN IF r.exc # "" THEN r ELSE Point(r.val, shapely)
    [] location_format = "lon-lat-array" -> Point(location, shapely)
    [] location_format = "lat-lon-dict" ->
         LET lon == Subscript(location, JStr("lon"))
             lat == Subscript(location, JStr("lat"))
         IN IF lon.exc # "" THEN lon
            ELSE IF lat.exc # "" THEN lat
            ELSE Point(JList(<<lon.val, lat.val>>), shapely)
    [] OTHER -> Raise("ValueError")

_extract_location(keypath, location_format, obj, shapely, python38) ==
  LET location == Reduce(keypath, obj)
      r == IF location.exc # "" THEN location
           ELSE Convert(location_format, location.val, shapely, python38)
  IN IF r.exc \in Caught THEN Ok(None) ELSE r

(* extract_location itself only builds the closure: no statement of it    *)
(* looks at location_format, so it returns normally for every tag.        *)
extract_location(keypath, location_format) == Ok([keypath |-> keypath, location_format |-> location_format])

(* ---------------------------------------------------------------------- *)
(* find_containing_feature(features) -> _find_containing_feature(point)    *)
(* ---------------------------------------------------------------------- *)
SetMin(S) == CHOOSE m \in S : \A e \in S : m <= e
SetMax(S) == CHOOSE m \in S : \A e \in S : m >= e

RingXs(ring) == {ring.v[i].v[1].v : i \in 1..Len(ring.v)}
RingYs(ring) == {ring.v[i].v[2].v : i \in 1..Len(ring.v)}

(* Polygon.contains(point) for a polygon whose exterior ring is an        *)
(* axis-aligned rectangle (the only polygons of this model): the point    *)
(* must lie in the interior; a point on the boundary is not contained.    *)
PolygonContains(rings, point) ==
  LET ring == rings.v[1]
  IN /\ SetMin(RingXs(ring)) < point.x /\ point.x < SetMax(RingXs(ring))
     /\ SetMin(RingYs(ring)) < point.y /\ point.y < SetMax(RingYs(ring))

(* shape(f["geometry"]).contains(point) for a Point argument *)
ShapeContains(geometry, point) ==
  IF geometry.type = "Polygon" THEN PolygonContains(geometry.coordinates, point)
  ELSE \E i \in 1..Len(geometry.coordinates.v) :
         PolygonContains(geometry.coordinates.v[i], point)

(* s.contains(point), point possibly None: series 1.x validates its       *)
(* operands and raises ValueError("Null geometry supports no operations"),*)
(* series 2.x treats None as a missing geometry and answers False.        *)
Contains(geometry, point, shapely) ==
  IF point.t = "null"
  THEN IF shapely = 1 THEN Raise("ValueError") ELSE Ok(FALSE)
  ELSE Ok(ShapeContains(geometry, point))

(* a faulty scan: the last containing feature wins *)
RECURSIVE _find_last_containing_feature(_, _, _)
_find_last_containing_feature(features, point, shapely) ==
  IF features = <<>> THEN Ok(None)
  ELSE LET f == features[Len(features)]
           c == Contains(f.geometry, point, shapely)
       IN IF c.exc # "" THEN Raise(c.exc)
          ELSE IF c.val THEN Ok(JStr(f.properties.id))
          ELSE _find_last_containing_feature(SubSeq(features, 1, Len(features) - 1), point, shapely)

RECURSIVE _find_containing_feature(_, _, _)
_find_containing_feature(features, point, shapely) ==
  IF features = <<>> THEN Ok(None)
  ELSE LET f == Head(features)
           c == Contains(f.geometry, point, shapely)
       IN IF c.exc # "" THEN Raise(c.exc)
          ELSE IF c.val THEN Ok(JStr(f.properties.id))
          ELSE _find_containing_feature(Tail(features), point, shapely)

(* ---------------------------------------------------------------------- *)
(* feature_set_bounds(features)                                            *)
(* ---------------------------------------------------------------------- *)
(* Floats: <<h, w, e>> stands for h*float_info.max + w + e*float_info.min, *)
(* compared lexicographically (|w| is far below float_info.max and         *)
(* float_info.min is the smallest positive normal float, about 2.2e-308).  *)
FNum(n) == <<0, n, 0>>
FloatInfoMax == <<1, 0, 0>>
FloatInfoMin == <<0, 0, 1>>

FLess(a, b) ==
  \/ a[1] < b[1]
  \/ a[1] = b[1] /\ a[2] < b[2]
  \/ a[1] = b[1] /\ a[2] = b[2] /\ a[3] < b[3]

PyMax(a, b) == IF FLess(a, b) THEN b ELSE a
PyMin(a, b) == IF FLess(b, a) THEN b ELSE a

(* [isinstance(c, Number) for c in coordinates] == [True, True] *)
IsCoordinate(coordinates) ==
  /\ coordinates.t = "list"
  /\ Len(coordinates.v) = 2
  /\ \A i \in 1..2 : coordinates.v[i].t = "num"

(* The coordinates _find_coordinate_bounds reaches, in visiting order.     *)
(* Iterating a number or None raises TypeError.  A string is iterated      *)
(* letter by letter and each letter is again a string of one letter, so a  *)
(* non-empty string never stops recursing (RecursionError); an empty one   *)
(* has nothing to visit.  A dict is iterated over its keys, all strings.   *)
RECURSIVE Leaves(_)
RECURSIVE LeavesOfList(_)
Leaves(coordinates) ==
  CASE coordinates.t = "list" ->
         IF IsCoordinate(coordinates) THEN [exc |-> "", val |-> <<coordinates>>]
         ELSE LeavesOfList(coordinates.v)
    [] coordinates.t = "str" ->
         IF coordinates.v = "" THEN [exc |-> "", val |-> <<>>]
         ELSE [exc |-> "RecursionError", val |-> <<>>]
    [] coordinates.t = "dict" ->
         IF \A i \in 1..Len(coordinates.v) : coordinates.v[i].k = "" THEN [exc |-> "", val |-> <<>>]
         ELSE [exc |-> "RecursionError", val |-> <<>>]
    [] OTHER -> [exc |-> "TypeError", val |-> <<>>]
LeavesOfList(s) ==
  IF s = <<>> THEN [exc |-> "", val |-> <<>>]
  ELSE LET h == Leaves(Head(s))
           r == LeavesOfList(Tail(s))
       IN IF h.exc # "" THEN h
          ELSE IF r.exc # "" THEN [exc |-> r.exc, val |-> h.val]
          ELSE [exc |-> "", val |-> h.val \o r.val]

InitialBounds == [min_x |-> FloatInfoMax, min_y |-> FloatInfoMax,
                  max_x |-> FloatInfoMin, max_y |-> FloatInfoMin]

(* the coordinate branch of _find_coordinate_bounds *)
_find_coordinate_bounds(b, coordinates) ==
  LET x == FNum(coordinates.v[1].v)
      y == FNum(coordinates.v[2].v)
  IN [max_x |-> PyMax(b.max_x, x), min_x |-> PyMin(b.min_x, x),
      max_y |-> PyMax(b.max_y, y), min_y |-> PyMin(b.min_y, y)]

RECURSIVE FoldBounds(_, _)
FoldBounds(b, leaves) ==
  IF leaves = <<>> THEN b
  ELSE FoldBounds(_find_coordinate_bounds(b, Head(leaves)), Tail(leaves))

(* all features' coordinates, in the order of  for f in features *)
RECURSIVE FeatureLeaves(_)
FeatureLeaves(features) ==
  IF features = <<>> THEN [exc |-> "", val |-> <<>>]
  ELSE LET h == Leaves(Head(features).geometry.coordinates)
           r == FeatureLeaves(Tail(features))
       IN IF h.exc # "" THEN h
          ELSE IF r.exc # "" THEN [exc |-> r.exc, val |-> h.val \o r.val]
          ELSE [exc |-> "", val |-> h.val \o r.val]

(* ((min x, max x), (min y, max y)) *)
BoundsTuple(b) == <<<<b.min_x, b.max_x>>, <<b.min_y, b.max_y>>>>

feature_set_bounds(features) ==
  LET l == FeatureLeaves(features)
  IN IF l.exc # "" THEN [exc |-> l.exc, val |-> BoundsTuple(InitialBounds)]
     ELSE [exc |-> "", val |-> BoundsTuple(FoldBounds(InitialBounds, l.val))]

(* ---------------------------------------------------------------------- *)
(* collections.Counter, kept in insertion order as a dict is               *)
(* ---------------------------------------------------------------------- *)
EmptyCounter == <<>>

(* counter[k]: a missing key reads as 0 and is not inserted *)
CounterGet(c, k) ==
  IF \E i \in 1..Len(c) : c[i].k = k
  THEN c[CHOOSE i \in 1..Len(c) : c[i].k = k].n
  ELSE 0

(* counter[k] = counter[k] + 1 *)
CounterInc(c, k) ==
  IF \E i \in 1..Len(c) : c[i].k = k
  THEN [i \in 1..Len(c) |-> IF c[i].k = k THEN [k |-> k, n |-> c[i].n + 1] ELSE c[i]]
  ELSE Append(c, [k |-> k, n |-> 1])

(* counter.most_common(n): the n largest counts, ties in insertion order *)
RemoveAt(c, j) == [i \in 1..(Len(c) - 1) |-> IF i < j THEN c[i] ELSE c[i + 1]]
RECURSIVE most_common(_, _)
most_common(c, n) ==
  IF n = 0 \/ c = <<>> THEN <<>>
  ELSE LET j == CHOOSE i \in 1..Len(c) :
                  /\ \A m \in 1..Len(c) : c[m].n <= c[i].n
                  /\ \A m \in 1..(i - 1) : c[m].n < c[i].n
       IN <<c[j]>> \o most_common(RemoveAt(c, j), n - 1)

(* ---------------------------------------------------------------------- *)
(* Input lines and json.loads                                              *)
(* ---------------------------------------------------------------------- *)
LineInA == "{\"loc\": [1, 1]}"
LineInB == "{\"loc\": [3, 1]}"
LineFar == "{\"loc\": [9, 9]}"
LineDict == "{\"loc\": {\"lat\": 1, \"lon\": 3}}"
LineNoKey == "{}"
LineStrings == "{\"loc\": [\"a\", \"b\"]}"
LineGarbage == "not json"

Loc(v) == JDict(<<Item("loc", v)>>)

(* json.loads(line): the decoded value, or JSONDecodeError (a ValueError) *)
JsonLoads(line) ==
  CASE line = LineInA -> Ok(Loc(JList(<<JNum(1), JNum(1)>>)))
    [] line = LineInB -> Ok(Loc(JList(<<JNum(3), JNum(1)>>)))
    [] line = LineFar -> Ok(Loc(JList(<<JNum(9), JNum(9)>>)))
    [] line = LineDict -> Ok(Loc(JDict(<<Item("lat", JNum(1)), Item("lon", JNum(3))>>)))
    [] line = LineNoKey -> Ok(JDict(<<>>))
    [] line = LineStrings -> Ok(Loc(JList(<<JStr("a"), JStr("b")>>)))
    [] OTHER -> Raise("JSONDecodeError")

(* process_tweet(line) = identify_feature(extract(json.loads(line))) *)
process_tweet(line, key_path, location_format, features, shapely, python38) ==
  LET obj == JsonLoads(line)
      point == _extract_location(key_path, location_format, obj.val, shapely, python38)
  IN IF obj.exc # "" THEN obj
     ELSE IF point.exc # "" THEN point
     ELSE _find_containing_feature(features, point.val, shapely)

(* ---------------------------------------------------------------------- *)
(* Features                                                                *)
(* ---------------------------------------------------------------------- *)
Coord(x, y) == JList(<<JNum(x), JNum(y)>>)
RectRing(x1, y1, x2, y2) ==
  JList(<<Coord(x1, y1), Coord(x2, y1), Coord(x2, y2), Coord(x1, y2), Coord(x1, y1)>>)
PolygonFeature(id, name, x1, y1, x2, y2) ==
  [properties |-> [id |-> id, name |-> name],
   geometry |-> [type |-> "Polygon", coordinates |-> JList(<<RectRing(x1, y1, x2, y2)>>)]]

(* A and B are adjacent: they share the edge x = 2.  C overlaps both.      *)
(* M is a MultiPolygon of two disjoint squares.                            *)
FeatureA == PolygonFeature("A", "Zeta", 0, 0, 2, 2)
FeatureB == PolygonFeature("B", "Alpha", 2, 0, 4, 2)
FeatureC == PolygonFeature("C", "Beta", 0, 0, 4, 2)
FeatureM ==
  [properties |-> [id |-> "M", name |-> "Multi"],
   geometry |-> [type |-> "MultiPolygon",
                 coordinates |-> JList(<<JList(<<RectRing(0, 0, 2, 2)>>),
                                         JList(<<RectRing(2, 2, 4, 4)>>)>>)]]

(* str < str on the feature names of the model *)
NameRank(name) ==
  CASE name = "Alpha" -> 1 [] name = "Beta" -> 2 [] name = "Multi" -> 3 [] name = "Zeta" -> 4

(* sorted(features, key=lambda f: f["properties"]["name"]): stable insertion sort *)
RECURSIVE SortedByName(_)
InsertByName(f, s) ==
  LET k == Cardinality({i \in 1..Len(s) : NameRank(s[i].properties.name) <= NameRank(f.properties.name)})
  IN SubSeq(s, 1, k) \o <<f>> \o SubSeq(s, k + 1, Len(s))
(* a faulty ordering: the features are left in collection order *)
UnsortedByName(features) == features

SortedByName(features) ==
  IF features = <<>> THEN <<>>
  ELSE InsertByName(features[Len(features)], SortedByName(SubSeq(features, 1, Len(features) - 1)))

(* ---------------------------------------------------------------------- *)
(* State                                                                   *)
(* ---------------------------------------------------------------------- *)
VARIABLES
  shapely,          \* major series of the installed geometry library (1 or 2)
  python38,         \* the interpreter is Python 3.8 or later
  location_format,  \* args.location_format
  features,         \* the loaded feature collection
  lines,            \* the input lines, in file order
  todo,             \* indices of lines no worker has processed yet
  outq,             \* results of process_tweet in completion order, not yet consumed
  counter,          \* the Counter of the coordinating process
  pc,               \* position of the main program
  exc,              \* uncaught exception that ended the program, "" if none
  exit_code,        \* process exit status, -1 while running
  stderr,           \* message printed to standard error
  stdout,           \* rows written by the csv writer
  max_count,        \* max_count, 0 until computed
  render_i,         \* position in the sorted feature list
  fills,            \* arguments of the calls to feature_fill_color
  ext,              \* state of the extract_location harness
  loc,              \* state of the find_containing_feature harness
  bnd               \* state of the feature_set_bounds harness

vars == <<shapely, python38, location_format, features, lines, todo, outq, counter, pc, exc,
          exit_code, stderr, stdout, max_count, render_i, fills, ext, loc, bnd>>

mainVars == <<location_format, features, lines, todo, outq, counter, pc, exc,
              exit_code, stderr, stdout, max_count, render_i, fills>>

(* Bounds of the model *)
MaxLines == 3
MaxFeatures == 2
MaxBoundsFeatures == 2
MaxCoord == 1

Choices == {"lat-lon-array", "lon-lat-array", "lat-lon-dict"}
Tags == Choices \cup {"wkt"}
key_path == <<JStr("loc")>>
InputLines == {LineInA, LineInB, LineFar, LineDict, LineNoKey, LineStrings, LineGarbage}
FeatureSets == {<<>>, <<FeatureA, FeatureB>>}

RECURSIVE SeqsUpTo(_, _)
SeqsUpTo(S, n) ==
  IF n = 0 THEN {<<>>}
  ELSE LET shorter == SeqsUpTo(S, n - 1)
       IN shorter \cup {Append(q, e) : q \in shorter, e \in S}

IdleMain ==
  /\ location_format = "" /\ features = <<>> /\ lines = <<>> /\ todo = {}
  /\ outq = <<>> /\ counter = EmptyCounter /\ pc = "idle" /\ exc = ""
  /\ exit_code = -1 /\ stderr = "" /\ stdout = <<>> /\ max_count = 0
  /\ render_i = 0 /\ fills = <<>>
IdleExt == ext = [pc |-> "idle"]
IdleLoc == loc = [pc |-> "idle"]
IdleBnd == bnd = [pc |-> "idle"]

(* ---------------------------------------------------------------------- *)
(* The main program                                                        *)
(* ---------------------------------------------------------------------- *)
Init ==
  /\ shapely \in {1, 2}
  /\ python38 \in BOOLEAN
  /\ location_format \in Tags
  /\ features \in FeatureSets
  /\ lines \in SeqsUpTo(InputLines, MaxLines)
  /\ todo = 1..Len(lines)
  /\ outq = <<>>
  /\ counter = EmptyCounter
  /\ pc = "start"
  /\ exc = ""
  /\ exit_code = -1
  /\ stderr = ""
  /\ stdout = <<>>
  /\ max_count = 0
  /\ render_i = 0
  /\ fills = <<>>
  /\ IdleExt /\ IdleLoc /\ IdleBnd

Crash(e) ==
  /\ pc' = "exit"
  /\ exc' = e
  /\ exit_code' = 1
  /\ stderr' = "Traceback"

(* parser.parse_args: --location-format is restricted to its choices;     *)
(* then the features are read and the two closures are built.             *)
ParseArgs ==
  /\ pc = "start"
  /\ IF location_format \in Choices /\ extract_location(key_path, location_format).exc = ""
     THEN /\ pc' = "loop"
          /\ UNCHANGED <<exit_code, stderr>>
     ELSE /\ pc' = "exit"
          /\ exit_code' = 2
          /\ stderr' = "usage"
  /\ UNCHANGED <<shapely, python38, location_format, features, lines, todo, outq, counter, exc,
                 stdout, max_count, render_i, fills, ext, loc, bnd>>

(* a faulty worker: it also counts its own result in the shared counter *)
WorkerSharesCounter(i) ==
  /\ pc = "loop"
  /\ i \in todo
  /\ todo' = todo \ {i}
  /\ LET r == process_tweet(lines[i], key_path, location_format, features, shapely, python38)
     IN /\ outq' = Append(outq, r)
        /\ counter' = IF r.exc = "" THEN CounterInc(counter, r.val) ELSE counter
  /\ UNCHANGED <<shapely, python38, location_format, features, lines, pc, exc, exit_code,
                 stderr, stdout, max_count, render_i, fills, ext, loc, bnd>>

(* a pool worker maps process_tweet over one line; lines complete in any  *)
(* order (imap_unordered) and the worker hands back only the result.      *)
Worker(i) ==
  /\ pc = "loop"
  /\ i \in todo
  /\ todo' = todo \ {i}
  /\ outq' = Append(outq, process_tweet(lines[i], key_path, location_format, features, shapely, python38))
  /\ UNCHANGED <<shapely, python38, location_format, features, lines, counter, pc, exc, exit_code,
                 stderr, stdout, max_count, render_i, fills, ext, loc, bnd>>

(* one iteration of  for feature_id in pool.imap_unordered(...): an       *)
(* exception raised in a worker is re-raised here and nothing catches it. *)
Tally ==
  /\ pc = "loop"
  /\ outq # <<>>
  /\ outq' = Tail(outq)
  /\ IF Head(outq).exc # ""
     THEN /\ Crash(Head(outq).exc)
          /\ UNCHANGED counter
     ELSE /\ counter' = CounterInc(counter, Head(outq).val)
          /\ UNCHANGED <<pc, exc, exit_code, stderr>>
  /\ UNCHANGED <<shapely, python38, location_format, features, lines, todo, stdout, max_count,
                 render_i, fills, ext, loc, bnd>>

(* input exhausted: pool.close(); pool.join() *)
LoopEnd ==
  /\ pc = "loop"
  /\ todo = {}
  /\ outq = <<>>
  /\ pc' = "check"
  /\ UNCHANGED <<shapely, python38, location_format, features, lines, todo, outq, counter, exc,
                 exit_code, stderr, stdout, max_count, render_i, fills, ext, loc, bnd>>

(* if len(list(counter)) == 1 and list(counter)[0] == None *)
TerminalCheck ==
  /\ pc = "check"
  /\ IF Len(counter) = 1 /\ counter[1].k = None
     THEN /\ stderr' = "Unable to locate any tweets"
          /\ exit_code' = 1
          /\ pc' = "exit"
     ELSE /\ pc' = "max"
          /\ UNCHANGED <<stderr, exit_code>>
  /\ UNCHANGED <<shapely, python38, location_format, features, lines, todo, outq, counter, exc,
                 stdout, max_count, render_i, fills, ext, loc, bnd>>

(* most_common = counter.most_common(2); max_count = most_common[0][1];   *)
(* if most_common[0][0] is None: max_count = most_common[1][1]            *)
MaxCount ==
  /\ pc = "max"
  /\ LET mc == most_common(counter, 2)
     IN IF Len(mc) = 0
        THEN /\ Crash("IndexError")
             /\ UNCHANGED max_count
        ELSE IF mc[1].k = None /\ Len(mc) < 2
        THEN /\ Crash("IndexError")
             /\ max_count' = mc[1].n
        ELSE /\ max_count' = IF mc[1].k = None THEN mc[2].n ELSE mc[1].n
             /\ pc' = "header"
             /\ UNCHANGED <<exc, exit_code, stderr>>
  /\ UNCHANGED <<shapely, python38, location_format, features, lines, todo, outq, counter,
                 stdout, render_i, fills, ext, loc, bnd>>

(* writer.writerow(["Feature", "Tweet Count"]) *)
WriteHeader ==
  /\ pc = "header"
  /\ stdout' = Append(stdout, <<"Feature", "Tweet Count">>)
  /\ render_i' = 1
  /\ pc' = "render"
  /\ UNCHANGED <<shapely, python38, location_format, features, lines, todo, outq, counter, exc,
                 exit_code, stderr, max_count, fills, ext, loc, bnd>>

(* one iteration of the loop over the features sorted by name: the row,   *)
(* then feature_fill_color(count, max_count), which divides by max_count. *)
RenderFeature ==
  /\ pc = "render"
  /\ render_i <= Len(features)
  /\ LET feature == SortedByName(features)[render_i]
         count == CounterGet(counter, JStr(feature.properties.id))
         written == IF count # 0
                    THEN Append(stdout, <<feature.properties.name, ToString(count)>>)
                    ELSE stdout
     IN /\ stdout' = written
        /\ IF max_count = 0
           THEN /\ Crash("ZeroDivisionError")
                /\ UNCHANGED <<render_i, fills>>
           ELSE /\ fills' = Append(fills, [count |-> count, max_count |-> max_count])
                /\ render_i' = render_i + 1
                /\ UNCHANGED <<pc, exc, exit_code, stderr>>
  /\ UNCHANGED <<shapely, python38, location_format, features, lines, todo, outq, counter,
                 max_count, ext, loc, bnd>>

(* if counter[None]: writer.writerow(["Unknown Location", counter[None]]); *)
(* then the figure is saved or shown and the program ends.                 *)
Finish ==
  /\ pc = "render"
  /\ render_i > Len(features)
  /\ stdout' = IF CounterGet(counter, None) # 0
               THEN Append(stdout, <<"Unknown Location", ToString(CounterGet(counter, None))>>)
               ELSE stdout
  /\ pc' = "done"
  /\ exit_code' = 0
  /\ UNCHANGED <<shapely, python38, location_format, features, lines, todo, outq, counter, exc,
                 stderr, max_count, render_i, fills, ext, loc, bnd>>

Next ==
  \/ ParseArgs
  \/ \E i \in 1..MaxLines : Worker(i)
  \/ Tally
  \/ LoopEnd
  \/ TerminalCheck
  \/ MaxCount
  \/ WriteHeader
  \/ RenderFeature
  \/ Finish

Spec == Init /\ [][Next]_vars

(* ---------------------------------------------------------------------- *)
(* extract_location called directly, with any tag                          *)
(* ---------------------------------------------------------------------- *)
KeyPaths == {<<JStr("loc")>>, <<JStr("geo"), JStr("coordinates")>>,
             <<JStr("loc"), JNum(0)>>, <<JStr("loc"), JNum(2)>>,
             <<JStr("loc"), JList(<<JStr("lat")>>)>>}
Objects ==
  {Loc(Coord(1, 2)),
   Loc(JDict(<<Item("lat", JNum(1)), Item("lon", JNum(2))>>)),
   Loc(JDict(<<Item("lon", JNum(2)), Item("lat", JNum(1))>>)),
   Loc(JDict(<<Item("lat", JNum(1))>>)),
   Loc(JList(<<Coord(1, 2), Coord(3, 4)>>)),
   Loc(JList(<<JStr("a"), JStr("b")>>)),
   Loc(JStr("ab")),
   Loc(None),
   Loc(JNum(7)),
   JDict(<<Item("geo", JDict(<<Item("coordinates", Coord(1, 2))>>))>>),
   JDict(<<Item("geo", None)>>),
   JDict(<<>>),
   JList(<<>>),
   JNum(5)}

InitExtract ==
  /\ shapely \in {1, 2}
  /\ python38 \in BOOLEAN
  /\ ext \in [pc : {"setup"}, keypath : KeyPaths, location_format : Tags,
              obj : Objects, result : {Ok(None)}]
  /\ IdleMain /\ IdleLoc /\ IdleBnd

(* extract = extract_location(keypath, location_format) *)
BuildExtractor ==
  /\ ext.pc = "setup"
  /\ ext' = [ext EXCEPT !.pc = IF extract_location(ext.keypath, ext.location_format).exc = ""
                                THEN "built" ELSE "config_error"]
  /\ UNCHANGED <<shapely, python38, mainVars, loc, bnd>>

(* extract(obj) *)
CallExtractor ==
  /\ ext.pc = "built"
  /\ ext' = [ext EXCEPT !.pc = "called",
                        !.result = _extract_location(ext.keypath, ext.location_format,
                                                     ext.obj, shapely, python38)]
  /\ UNCHANGED <<shapely, python38, mainVars, loc, bnd>>

NextExtract == BuildExtractor \/ CallExtractor
SpecExtract == InitExtract /\ [][NextExtract]_vars

(* ---------------------------------------------------------------------- *)
(* find_containing_feature applied to a point                              *)
(* ---------------------------------------------------------------------- *)
FeaturePool == {FeatureA, FeatureB, FeatureC, FeatureM}
GridPoints == {MkPoint(x, y) : x \in 0..4, y \in 0..4}

InitLocate ==
  /\ shapely \in {1, 2}
  /\ python38 \in BOOLEAN
  /\ loc \in [pc : {"ready"}, features : SeqsUpTo(FeaturePool, MaxFeatures),
              point : GridPoints, result : {Ok(None)}]
  /\ IdleMain /\ IdleExt /\ IdleBnd

Locate ==
  /\ loc.pc = "ready"
  /\ loc' = [loc EXCEPT !.pc = "done",
                        !.result = _find_containing_feature(loc.features, loc.point, shapely)]
  /\ UNCHANGED <<shapely, python38, mainVars, ext, bnd>>

NextLocate == Locate
SpecLocate == InitLocate /\ [][NextLocate]_vars

(* ---------------------------------------------------------------------- *)
(* feature_set_bounds applied to a feature collection                      *)
(* ---------------------------------------------------------------------- *)
PointFeature(x, y) ==
  [properties |-> [id |-> "P", name |-> "Point"],
   geometry |-> [type |-> "Point", coordinates |-> Coord(x, y)]]
BoundsPool ==
  {PointFeature(x, y) : x \in -MaxCoord..MaxCoord, y \in -MaxCoord..MaxCoord}
    \cup {FeatureA, FeatureM, PolygonFeature("N", "Negative", -2, -2, -1, -1)}

InitBounds ==
  /\ shapely \in {1, 2}
  /\ python38 \in BOOLEAN
  /\ bnd \in [pc : {"ready"}, features : SeqsUpTo(BoundsPool, MaxBoundsFeatures),
              result : {[exc |-> "", val |-> BoundsTuple(InitialBounds)]}]
  /\ IdleMain /\ IdleExt /\ IdleLoc

Bounds ==
  /\ bnd.pc = "ready"
  /\ bnd' = [bnd EXCEPT !.pc = "done", !.result = feature_set_bounds(bnd.features)]
  /\ UNCHANGED <<shapely, python38, mainVars, ext, loc>>

NextBounds == Bounds
SpecBounds == InitBounds /\ [][NextBounds]_vars

(* ====================================================================== *)
(* Properties                                                              *)
(* ====================================================================== *)
RegionIds == {"A", "B", "C", "M"}
AllKeys == {None} \cup {JStr(r) : r \in RegionIds}

(* what process_tweet yields for the i-th input line *)
Outcome(i) == process_tweet(lines[i], key_path, location_format, features, shapely, python38)

(* the for loop over the pool's results ran to its end *)
LoopCompleted ==
  \/ pc \in {"check", "max", "header", "render", "done"}
  \/ pc = "exit" /\ exit_code = 1 /\ exc \in {"", "IndexError", "ZeroDivisionError"}

RECURSIVE SumCounts(_)
SumCounts(c) == IF c = <<>> THEN 0 ELSE Head(c).n + SumCounts(Tail(c))

(* the run is over and it got past the parsing of its arguments *)
RunEnded == pc = "done" \/ (pc = "exit" /\ exit_code # 2)

(* the tally of the claim: the counts sum to the number N of lines, and    *)
(* when the located lines all fall in one region R, count[R] is their      *)
(* number k and count[None] is N - k                                       *)
Tallied ==
  /\ SumCounts(counter) = Len(lines)
  /\ \A R \in RegionIds :
       (\A i \in 1..Len(lines) : Outcome(i).val \in {JStr(R), None}) =>
         LET k == Cardinality({i \in 1..Len(lines) : Outcome(i).val = JStr(R)})
         IN /\ CounterGet(counter, JStr(R)) = k
            /\ CounterGet(counter, None) = Len(lines) - k

(* every line of the stream decodes to a record *)
AllDecodable == \A i \in 1..Len(lines) : JsonLoads(lines[i]).exc = ""

(* C1 (as claimed): the counter starts empty and grows by exactly one per  *)
(* consumed result; for every stream of N records the run ends with a      *)
(* counter whose counts sum to N, and when the located records all fall in *)
(* one region R, count[R] is their number k and count[None] is N - k, the  *)
(* records without a valid location included.                              *)
C1_AggregationTally ==
  /\ pc = "start" => counter = EmptyCounter
  /\ pc = "loop" => SumCounts(counter) = Len(lines) - Cardinality(todo) - Len(outq)
  /\ (RunEnded /\ AllDecodable) => Tallied

(* the part of C1 that the code keeps: the same tally, for the runs whose  *)
(* result loop is not ended by an exception of a record                    *)
C1_TallyOfCompletedLoop ==
  /\ pc = "start" => counter = EmptyCounter
  /\ pc = "loop" => SumCounts(counter) = Len(lines) - Cardinality(todo) - Len(outq)
  /\ LoopCompleted => Tallied

(* C2 (as claimed): whenever no line is located in any region, the run     *)
(* ends with "Unable to locate any tweets", a non-zero exit status and an  *)
(* empty standard output.                                                  *)
C2_AllUnlocatedIsGlobalFailure ==
  (/\ LoopCompleted
   /\ pc \notin {"check"}
   /\ \A i \in 1..Len(lines) : Outcome(i) = Ok(None))
  => /\ pc = "exit"
     /\ stderr = "Unable to locate any tweets"
     /\ exit_code # 0
     /\ stdout = <<>>

(* the located value of a decodable line cannot be turned into a point *)
Unextractable(line) ==
  /\ JsonLoads(line).exc = ""
  /\ LET location == Reduce(key_path, JsonLoads(line).val)
     IN \/ location.exc # ""
        \/ Convert(location_format, location.val, shapely, python38).exc # ""

(* C3 (as claimed): a decoded record whose location cannot be extracted    *)
(* is given the null outcome by the per-record pipeline, and no run is     *)
(* ended by an error of such a record.                                     *)
C3_SoftFailuresNeverAbort ==
  /\ \A i \in (1..Len(lines)) \ todo :
       (location_format \in Choices /\ Unextractable(lines[i])) => Outcome(i) = Ok(None)
  /\ exc # "ValueError"

(* C4 (as claimed): a line that is not decodable JSON is given the null    *)
(* outcome and the run goes on.                                            *)
C4_DecodeFailureIsNullOutcome ==
  /\ \A i \in (1..Len(lines)) \ todo :
       (location_format \in Choices /\ JsonLoads(lines[i]).exc # "") => Outcome(i) = Ok(None)
  /\ exc # "JSONDecodeError"

(* C5 (as claimed): with an unknown format tag, extract_location fails     *)
(* when it builds the extractor; no extractor is ever built or called.     *)
C5_UnknownTagRaisedAtSetup ==
  (ext.pc # "idle" /\ ext.location_format \notin Choices)
    => ext.pc \in {"setup", "config_error"}

(* the rectangles of the model's regions, stated apart from the features *)
InInterior(id, p) ==
  CASE id = "A" -> 0 < p.x /\ p.x < 2 /\ 0 < p.y /\ p.y < 2
    [] id = "B" -> 2 < p.x /\ p.x < 4 /\ 0 < p.y /\ p.y < 2
    [] id = "C" -> 0 < p.x /\ p.x < 4 /\ 0 < p.y /\ p.y < 2
    [] id = "M" -> \/ 0 < p.x /\ p.x < 2 /\ 0 < p.y /\ p.y < 2
                   \/ 2 < p.x /\ p.x < 4 /\ 2 < p.y /\ p.y < 4
InClosure(id, p) ==
  CASE id = "A" -> 0 <= p.x /\ p.x <= 2 /\ 0 <= p.y /\ p.y <= 2
    [] id = "B" -> 2 <= p.x /\ p.x <= 4 /\ 0 <= p.y /\ p.y <= 2
    [] id = "C" -> 0 <= p.x /\ p.x <= 4 /\ 0 <= p.y /\ p.y <= 2
    [] id = "M" -> \/ 0 <= p.x /\ p.x <= 2 /\ 0 <= p.y /\ p.y <= 2
                   \/ 2 <= p.x /\ p.x <= 4 /\ 2 <= p.y /\ p.y <= 4

FirstInterior(fs, p) ==
  LET hits == {i \in 1..Len(fs) : InInterior(fs[i].properties.id, p)}
  IN IF hits = {} THEN None ELSE JStr(fs[SetMin(hits)].properties.id)
FirstClosed(fs, p) ==
  LET hits == {i \in 1..Len(fs) : InClosure(fs[i].properties.id, p)}
  IN IF hits = {} THEN None ELSE JStr(fs[SetMin(hits)].properties.id)

(* the point lies on the edge x = 2 that the adjacent regions A and B share *)
OnSharedEdge(fs, p) ==
  /\ fs \in {<<FeatureA, FeatureB>>, <<FeatureB, FeatureA>>}
  /\ p.x = 2 /\ 0 < p.y /\ p.y < 2
OffAllBoundaries(fs, p) ==
  \A i \in 1..Len(fs) : InClosure(fs[i].properties.id, p) = InInterior(fs[i].properties.id, p)

(* C6 (as claimed): the result is the id of the first region, in           *)
(* collection order, whose polygon contains the point, and None iff there  *)
(* is none; a point on the edge shared by two adjacent regions gets the    *)
(* region that comes first in the collection.                              *)
C6_FirstMatchClosed ==
  loc.pc = "done" =>
    /\ OffAllBoundaries(loc.features, loc.point)
         => loc.result = Ok(FirstClosed(loc.features, loc.point))
    /\ OnSharedEdge(loc.features, loc.point)
         => loc.result = Ok(JStr(loc.features[1].properties.id))

(* C6 (amended): the result is the id of the first region, in collection   *)
(* order, whose polygon has the point in its interior, and None iff there  *)
(* is none: a point on the edge shared by two adjacent regions lies in     *)
(* neither of them.                                                        *)
C6_FirstMatchInterior ==
  loc.pc = "done" =>
    /\ loc.result = Ok(FirstInterior(loc.features, loc.point))
    /\ OnSharedEdge(loc.features, loc.point) => loc.result = Ok(None)

C6_Witness ==
  /\ loc.pc = "done"
  /\ loc.features = <<FeatureC, FeatureB>>
  /\ loc.point = MkPoint(3, 1)
  /\ loc.result = Ok(JStr("C"))

(* the numbers feature_set_bounds is to range over *)
AllXs(fs) == {l.v[1].v : l \in {FeatureLeaves(fs).val[i] : i \in 1..Len(FeatureLeaves(fs).val)}}
AllYs(fs) == {l.v[2].v : l \in {FeatureLeaves(fs).val[i] : i \in 1..Len(FeatureLeaves(fs).val)}}

(* C7 (as claimed): for one feature whose geometry is the coordinate       *)
(* (x, y) the result is ((x, x), (y, y)); in general the result holds the  *)
(* least and greatest x and y over all coordinates of all features.        *)
C7_BoundsAreMinMax ==
  (bnd.pc = "done" /\ AllXs(bnd.features) # {}) =>
    /\ bnd.result.exc = ""
    /\ bnd.result.val = <<<<FNum(SetMin(AllXs(bnd.features))), FNum(SetMax(AllXs(bnd.features)))>>,
                          <<FNum(SetMin(AllYs(bnd.features))), FNum(SetMax(AllYs(bnd.features)))>>>>
    /\ \A x, y \in -MaxCoord..MaxCoord :
         bnd.features = <<PointFeature(x, y)>> =>
           bnd.result.val = <<<<FNum(x), FNum(x)>>, <<FNum(y), FNum(y)>>>>

(* the tally of processing the lines one after the other, in input order *)
RECURSIVE SequentialTally(_)
SequentialTally(n) ==
  IF n = 0 THEN [k \in AllKeys |-> 0]
  ELSE [SequentialTally(n - 1) EXCEPT ![Outcome(n).val] = @ + 1]

(* C8: in whatever order the workers deliver their results, the final      *)
(* tally is the tally of in-order processing, and the counter changes only *)
(* when the coordinating loop consumes one delivered result.               *)
C8_OrderIndependence ==
  /\ [](LoopCompleted =>
          /\ \A k \in AllKeys : CounterGet(counter, k) = SequentialTally(Len(lines))[k]
          /\ \A i \in 1..Len(counter) : counter[i].k \in AllKeys /\ counter[i].n > 0
          /\ \A i, j \in 1..Len(counter) : counter[i].k = counter[j].k => i = j)
  /\ [][counter' # counter => (outq # <<>> /\ outq' = Tail(outq) /\ todo' = todo)]_vars

C8_Witness ==
  /\ pc = "done"
  /\ Len(lines) = 3
  /\ Len(counter) = 3
  /\ counter[1].k = Outcome(3).val
  /\ counter[3].k = Outcome(1).val

Header == <<"Feature", "Tweet Count">>
IsUnknownRow(r) == r[1] = "Unknown Location"
RowCount(r) == CHOOSE n \in 0..Len(lines) : ToString(n) = r[2]
RECURSIVE SumRows(_)
SumRows(rows) == IF rows = <<>> THEN 0 ELSE RowCount(Head(rows)) + SumRows(Tail(rows))

(* C9: the finished table is the header, then one row (name, count) for    *)
(* each region with a non-zero count and none for the others, region rows  *)
(* in ascending order of name, then an "Unknown Location" row with         *)
(* count[None] iff that count is non-zero; the counts sum to the number of *)
(* lines.                                                                  *)
C9_CountTable ==
  pc = "done" =>
    LET body == Tail(stdout)
    IN /\ Head(stdout) = Header
       /\ \A j \in 1..Len(features) :
            LET c == CounterGet(counter, JStr(features[j].properties.id))
                rows == {i \in 1..Len(body) : body[i][1] = features[j].properties.name}
            IN /\ Cardinality(rows) = IF c # 0 THEN 1 ELSE 0
               /\ \A i \in rows : body[i][2] = ToString(c)
       /\ \A i \in 1..Len(body) :
            \/ IsUnknownRow(body[i])
            \/ \E j \in 1..Len(features) : body[i][1] = features[j].properties.name
       /\ \A i, j \in 1..Len(body) :
            (i < j /\ ~IsUnknownRow(body[j])) =>
              /\ ~IsUnknownRow(body[i])
              /\ NameRank(body[i][1]) < NameRank(body[j][1])
       /\ LET unknown == {i \in 1..Len(body) : IsUnknownRow(body[i])}
          IN /\ Cardinality(unknown) = IF CounterGet(counter, None) # 0 THEN 1 ELSE 0
             /\ \A i \in unknown : body[i][2] = ToString(CounterGet(counter, None))
       /\ SumRows(body) = Len(lines)

C9_Witness ==
  /\ pc = "done"
  /\ stdout = <<Header, <<"Alpha", "1">>, <<"Zeta", "1">>, <<"Unknown Location", "1">>>>

MaxNonNull(c) ==
  LET ns == {c[i].n : i \in {j \in 1..Len(c) : c[j].k # None}}
  IN IF ns = {} THEN 0 ELSE SetMax(ns)

(* C10 (as claimed): past the terminal check max_count is always obtained  *)
(* without an IndexError, is the greatest count of a region and at least   *)
(* 1, and every call feature_fill_color(count, max_count) has              *)
(* count <= max_count and a non-zero divisor.                              *)
C10_MaxCountWellDefined ==
  /\ exc \notin {"IndexError", "ZeroDivisionError"}
  /\ pc \in {"header", "render", "done"} =>
       /\ max_count = MaxNonNull(counter)
       /\ max_count >= 1
  /\ \A i \in 1..Len(fills) : fills[i].count <= fills[i].max_count /\ fills[i].max_count # 0

====
